---- MODULE Spec2Model ----
(***************************************************************************)
(* Order-book tab of terminal.py (tab3, lines 417-497): discovery of the   *)
(* per-item CSV files, full load with date-time parsing, snapshot          *)
(* selection, bid/ask split with price sort, cumulative depth and the raw  *)
(* snapshot export.  One pass of the script over tab3 is a reload cycle.   *)
(***************************************************************************)
EXTENDS Integers, Sequences, FiniteSets, TLC

VARIABLES
    fs,               \* the data directory: file name -> file on disk
    pc,               \* position of the reload cycle in tab3
    exc,              \* the call whose exception ended the cycle ("none" if none)
    orderbook_files,  \* line 425: the discovered order-book files, in order
    selected_file,    \* line 437: the file chosen in the "Select item" box
    df,               \* line 439: the loaded table
    snap_col,         \* line 445: the snapshot key column, or "None"
    selected_snap,    \* line 448: the option chosen in the "Select snapshot" box
    snap_df,          \* lines 449/451: the rows of the selected snapshot
    bids,             \* line 452
    asks,             \* line 453
    bid_depth,        \* lines 468-469: (price, cum_qty) per bid row
    ask_depth,        \* lines 475-476
    download,         \* line 494: the CSV handed to the download button
    now,              \* wall clock, in seconds
    cache,            \* line 14: the st.cache_data entry of get_steam_prices_data
    steam_prices_df   \* line 206: what the last call of the loader returned

cache_vars == <<now, cache, steam_prices_df>>

vars == <<fs, pc, exc, orderbook_files, selected_file, df, snap_col,
          selected_snap, snap_df, bids, asks, bid_depth, ask_depth, download,
          now, cache, steam_prices_df>>

(***************************************************************************)
(* Bounds of the checked input family.                                     *)
(***************************************************************************)
MaxRows == 3      \* rows per file in the sort and depth families
MaxKeyRows == 2   \* rows per file in the snapshot-key family
MaxBadLine == 3   \* position of a malformed data line, 0 = none

(***************************************************************************)
(* Program constants.                                                      *)
(***************************************************************************)
\* line 428: pd.read_csv(f, nrows=2)
Nrows == 2

\* lines 420-423
ignore ==
    {"steam_prices.csv", "tf2_orders.csv", "tf2_listings.csv", "supply_data.csv",
     "monitor_data.csv", "alerts.csv", "supply.csv"}

\* line 429
RequiredColumns == {"side", "price_vnd", "quantity"}

(***************************************************************************)
(* Cell texts.  A price cell is its text as a sequence of ASCII codes, so  *)
(* that read_csv's column typing and the string order of an object column  *)
(* are computed, not assumed.  <<>> is the empty cell.                     *)
(***************************************************************************)
Cell9 == <<57>>              \* "9"
Cell10 == <<49, 48>>         \* "10"
Cell10k == <<49, 48, 107>>   \* "10k"
EmptyCell == <<>>

IsDigits(cell) == cell # <<>> /\ \A i \in 1..Len(cell) : cell[i] \in 48..57

\* the number a digit string denotes
RECURSIVE Val(_)
Val(cell) ==
    IF cell = <<>> THEN 0
    ELSE 10 * Val(SubSeq(cell, 1, Len(cell) - 1)) + (cell[Len(cell)] - 48)

\* Python's str order: code point by code point, a proper prefix is smaller
RECURSIVE LexLess(_, _)
LexLess(a, b) ==
    IF b = <<>> THEN FALSE
    ELSE IF a = <<>> THEN TRUE
    ELSE IF Head(a) # Head(b) THEN Head(a) < Head(b)
    ELSE LexLess(Tail(a), Tail(b))

(***************************************************************************)
(* Date-times.  pd.to_datetime maps a cell text to an instant; NaT is the  *)
(* missing-value marker.  str() of a numpy datetime64 (line 448) is a      *)
(* different text than the one the collector wrote.                        *)
(***************************************************************************)
NaT == 0
PyNone == "None"

CellT1 == "2024-01-01 00:00:00"
CellT2 == "2024-01-02 00:00:00"
CellBad == "not-a-date"

\* errors='raise' is the default of pd.to_datetime: an unparseable text raises
Unparseable(s) ==
    s \notin {"", "NaT", "2024-01-01 00:00:00", "2024-01-02 00:00:00",
              "2024-01-01T00:00:00.000000000", "2024-01-02T00:00:00.000000000"}

ToDatetime(s) ==
    CASE s \in {"2024-01-01 00:00:00", "2024-01-01T00:00:00.000000000"} -> 1
      [] s \in {"2024-01-02 00:00:00", "2024-01-02T00:00:00.000000000"} -> 2
      [] OTHER -> NaT

\* str(x) of an element of df[snap_col].unique()
StrOfDatetime(t) ==
    CASE t = 1 -> "2024-01-01T00:00:00.000000000"
      [] t = 2 -> "2024-01-02T00:00:00.000000000"
      [] OTHER -> "NaT"

\* to_csv's text of a datetime64 cell
CsvOfDatetime(t) ==
    CASE t = 1 -> "2024-01-01 00:00:00"
      [] t = 2 -> "2024-01-02 00:00:00"
      [] OTHER -> ""

\* ==, elementwise, on a datetime64 column: NaT equals nothing, itself included
DatetimeEq(a, b) == a # NaT /\ b # NaT /\ a = b

(***************************************************************************)
(* Files.  A data line is the cells of one CSV line; ragged marks a line   *)
(* the parser rejects (wrong field count, undecodable bytes): read_csv     *)
(* raises when it reaches such a line.  Cells of columns the header lacks  *)
(* are blank.  A locked file is one another process holds so that opening  *)
(* it raises.                                                              *)
(***************************************************************************)
NoFile == [present |-> FALSE, header |-> {}, rows |-> <<>>, locked |-> FALSE]

\* the column names pandas understands as date-time key columns (lines 441-445)
KeyColumns == {"timestamp", "created_at"}

Headers ==
    {RequiredColumns,
     RequiredColumns \cup {"timestamp"},
     RequiredColumns \cup {"created_at"},
     RequiredColumns \cup {"timestamp", "created_at"},
     {"side", "price", "quantity"}}

Line(side, price, qty, ts, ca) ==
    [side |-> side, price_vnd |-> price, quantity |-> qty,
     timestamp |-> ts, created_at |-> ca, ragged |-> FALSE]

\* the line as written under a header: absent columns carry no cell
Under(header, line) ==
    [side       |-> IF "side" \in header THEN line.side ELSE "",
     price_vnd  |-> IF "price_vnd" \in header THEN line.price_vnd ELSE EmptyCell,
     quantity   |-> IF "quantity" \in header THEN line.quantity ELSE 0,
     timestamp  |-> IF "timestamp" \in header THEN line.timestamp ELSE "",
     created_at |-> IF "created_at" \in header THEN line.created_at ELSE "",
     ragged     |-> line.ragged]

File(header, rows) ==
    [present |-> TRUE, header |-> header, rows |-> rows, locked |-> FALSE]

(***************************************************************************)
(* The checked directories.                                                *)
(***************************************************************************)
\* glob.glob("*.csv") candidates, listed in Python's sorted() order (line 424)
NameOrder == <<"Steam_prices.csv", "steam_prices.csv", "widget.csv">>
Names == {NameOrder[i] : i \in 1..Len(NameOrder)}

\* catalog family: any header, possibly one malformed line, on every name
CatalogRows(header, bad) ==
    [i \in 1..MaxBadLine |->
        [Under(header, Line(IF i = 2 THEN "ask" ELSE "bid",
                            IF i = 2 THEN Cell10 ELSE Cell9, i, CellT1, CellT1))
            EXCEPT !.ragged = (i = bad)]]

CatalogFiles ==
    {NoFile} \cup {File(h, CatalogRows(h, b)) : h \in Headers, b \in 0..MaxBadLine}

CatalogDirs == [Names -> CatalogFiles]

OnlyWidget(file) == [n \in Names |-> IF n = "widget.csv" THEN file ELSE NoFile]

\* sort family: one snapshot, every side and price text
SortLines ==
    {Line(s, p, 1, "", CellT1) :
        s \in {"bid", "ask", "Bid"}, p \in {Cell9, Cell10, Cell10k, EmptyCell}}

SortDir(rows) == OnlyWidget(File(RequiredColumns \cup {"created_at"}, rows))

\* depth family: no key column, every quantity
DepthLines ==
    {Line(s, p, q, "", "") :
        s \in {"bid", "ask"}, p \in {Cell9, Cell10}, q \in {-1, 0, 2}}

DepthDir(rows) == OnlyWidget(File(RequiredColumns, rows))

\* key family: every key-column layout and key text
KeyLines ==
    {Line(s, Cell9, 1, ts, ca) :
        s \in {"bid", "ask", "Bid"},
        ts \in {CellT1, CellT2, "", CellBad},
        ca \in {CellT1, CellT2, ""}}

KeyHeaders == {h \in Headers : RequiredColumns \subseteq h}

KeyDir(header, rows) ==
    OnlyWidget(File(header, [i \in 1..Len(rows) |-> Under(header, rows[i])]))

(***************************************************************************)
(* Discovery (lines 420-432).                                              *)
(***************************************************************************)
\* str.lower() on the checked names
LowerName(n) == IF n = "Steam_prices.csv" THEN "steam_prices.csv" ELSE n

\* faulty variant of PossibleCsvs: the denylist matched without regard to case
PossibleCsvsCaseBlind(dir) ==
    SelectSeq(NameOrder, LAMBDA n : dir[n].present /\ LowerName(n) \notin ignore)

\* line 424: sorted([f for f in glob.glob("*.csv") if f not in ignore])
PossibleCsvs(dir) ==
    SelectSeq(NameOrder, LAMBDA n : dir[n].present /\ n \notin ignore)

\* line 428: the parser reads the header and the first Nrows data lines
PrefixReadRaises(file) ==
    \/ ~file.present
    \/ file.locked
    \/ \E i \in 1..Len(file.rows) : i <= Nrows /\ file.rows[i].ragged

\* line 429
HasRequiredColumns(columns) == RequiredColumns \subseteq columns

\* lines 425-432: the loop, a raising read skips the file
RECURSIVE Classify(_, _)
Classify(dir, names) ==
    IF names = <<>> THEN <<>>
    ELSE LET f == Head(names)
             rest == Classify(dir, Tail(names))
         IN  IF PrefixReadRaises(dir[f]) THEN rest
             ELSE IF HasRequiredColumns(dir[f].header) THEN <<f>> \o rest
             ELSE rest

Discovered(dir) == Classify(dir, PossibleCsvs(dir))

(***************************************************************************)
(* Full load (lines 439-445).                                              *)
(***************************************************************************)
\* line 439: pd.read_csv(selected_file) reads every line, no try around it
FullReadRaises(file) ==
    \/ ~file.present
    \/ file.locked
    \/ \E i \in 1..Len(file.rows) : file.rows[i].ragged

\* read_csv's type of the price column: integers, floats once a cell is
\* missing, strings (object) once a cell is not a number
PriceDtype(rows) ==
    IF rows = <<>> THEN "object"
    ELSE IF \A i \in 1..Len(rows) : IsDigits(rows[i].price_vnd) THEN "int64"
    ELSE IF \A i \in 1..Len(rows) :
               rows[i].price_vnd = EmptyCell \/ IsDigits(rows[i].price_vnd)
         THEN "float64"
    ELSE "object"

ReadCsv(file) ==
    [columns |-> file.header,
     price_dtype |-> PriceDtype(file.rows),
     rows |-> [i \in 1..Len(file.rows) |->
                 [idx |-> i,
                  side |-> file.rows[i].side,
                  price_vnd |-> file.rows[i].price_vnd,
                  quantity |-> file.rows[i].quantity,
                  timestamp |-> file.rows[i].timestamp,
                  created_at |-> file.rows[i].created_at]]]

\* lines 441-444: pd.to_datetime(column) raises on the first unparseable cell
ToDatetimeRaises(d) ==
    \E i \in 1..Len(d.rows) :
        \/ "timestamp" \in d.columns /\ Unparseable(d.rows[i].timestamp)
        \/ "created_at" \in d.columns /\ Unparseable(d.rows[i].created_at)

ParseDates(d) ==
    [d EXCEPT !.rows =
        [i \in 1..Len(d.rows) |->
            [d.rows[i] EXCEPT !.timestamp = ToDatetime(d.rows[i].timestamp),
                              !.created_at = ToDatetime(d.rows[i].created_at)]]]

\* faulty variant of SnapCol: created_at preferred over timestamp
SnapColCreatedFirst(columns) ==
    IF "created_at" \in columns THEN "created_at"
    ELSE IF "timestamp" \in columns THEN "timestamp"
    ELSE PyNone

\* line 445
SnapCol(columns) ==
    IF "timestamp" \in columns THEN "timestamp"
    ELSE IF "created_at" \in columns THEN "created_at"
    ELSE PyNone

(***************************************************************************)
(* Snapshot selection and split (lines 446-453).                           *)
(***************************************************************************)
KeyOf(row, col) == IF col = "timestamp" THEN row.timestamp ELSE row.created_at

\* lines 447-448: the options of the snapshot box; the box yields None when
\* it has no option.  The order of the options does not limit the choice.
SnapChoices(d, col) ==
    LET options == {StrOfDatetime(KeyOf(d.rows[i], col)) : i \in 1..Len(d.rows)}
    IN  IF col = PyNone \/ options = {} THEN {PyNone} ELSE options

\* line 449 / line 451
SnapshotRows(d, col, sel) ==
    IF col = PyNone THEN d.rows
    ELSE SelectSeq(d.rows,
            LAMBDA r : sel # PyNone /\ DatetimeEq(KeyOf(r, col), ToDatetime(sel)))

\* faulty variant of SideRows: the side compared without regard to case
SideRowsAnyCase(rows, side) ==
    SelectSeq(rows, LAMBDA r : r.side = side \/ (side = "bid" /\ r.side = "Bid"))

\* snap_df[snap_df['side'] == side]
SideRows(rows, side) == SelectSeq(rows, LAMBDA r : r.side = side)

\* the order sort_values compares two present cells of the price column in
PriceLess(dtype, a, b) ==
    IF dtype = "object" THEN LexLess(a, b) ELSE Val(a) < Val(b)

\* sort_values("price_vnd", ascending=asc): kind defaults to 'quicksort',
\* which is not stable, so rows of equal price come out in any order;
\* missing prices go last (na_position='last') in their original order.
SortValues(rows, dtype, asc) ==
    LET present == SelectSeq(rows, LAMBDA r : r.price_vnd # EmptyCell)
        missing == SelectSeq(rows, LAMBDA r : r.price_vnd = EmptyCell)
        m == Len(present)
        InOrder(x, y) ==
            IF asc THEN ~PriceLess(dtype, y.price_vnd, x.price_vnd)
            ELSE ~PriceLess(dtype, x.price_vnd, y.price_vnd)
        Perms == {q \in [1..m -> 1..m] :
                    /\ \A i, j \in 1..m : q[i] = q[j] => i = j
                    /\ \A i \in 1..m : i < m => InOrder(present[q[i]], present[q[i + 1]])}
    IN  {[i \in 1..Len(rows) |-> IF i <= m THEN present[q[i]] ELSE missing[i - m]] :
            q \in Perms}

(***************************************************************************)
(* Depth curve (lines 466-480) and export (lines 491-497).                 *)
(***************************************************************************)
RECURSIVE CumSum(_, _)
CumSum(rows, i) == IF i = 0 THEN 0 ELSE CumSum(rows, i - 1) + rows[i].quantity

\* faulty variant of Depth: an empty side still plots an anchor point
DepthAnchored(side) ==
    IF side = <<>> THEN <<[price_vnd |-> EmptyCell, cum_qty |-> 0]>>
    ELSE [i \in 1..Len(side) |->
            [price_vnd |-> side[i].price_vnd, cum_qty |-> CumSum(side, i)]]

\* lines 467-469 / 474-476: no trace at all for an empty side
Depth(side) ==
    IF side = <<>> THEN <<>>
    ELSE [i \in 1..Len(side) |->
            [price_vnd |-> side[i].price_vnd, cum_qty |-> CumSum(side, i)]]

\* to_csv writes a float64 price with its decimal point
CsvOfPrice(dtype, cell) ==
    IF cell # EmptyCell /\ dtype = "float64" THEN cell \o <<46, 48>> ELSE cell

\* faulty variant of ToCsv: the book (bids then asks) exported, not snap_df
ToCsvBookOnly(d, rows) ==
    LET book == SideRows(rows, "bid") \o SideRows(rows, "ask") IN
    [header |-> d.columns,
     lines |-> [i \in 1..Len(book) |->
                 [side |-> book[i].side,
                  price_vnd |-> CsvOfPrice(d.price_dtype, book[i].price_vnd),
                  quantity |-> book[i].quantity,
                  timestamp |-> CsvOfDatetime(book[i].timestamp),
                  created_at |-> CsvOfDatetime(book[i].created_at)]]]

\* line 494: snap_df.to_csv(index=False)
ToCsv(d, rows) ==
    [header |-> d.columns,
     lines |-> [i \in 1..Len(rows) |->
                 [side |-> rows[i].side,
                  price_vnd |-> CsvOfPrice(d.price_dtype, rows[i].price_vnd),
                  quantity |-> rows[i].quantity,
                  timestamp |-> CsvOfDatetime(rows[i].timestamp),
                  created_at |-> CsvOfDatetime(rows[i].created_at)]]]

(***************************************************************************)
(* The reload cycle.                                                       *)
(***************************************************************************)
NoDf == [columns |-> {}, price_dtype |-> "object", rows |-> <<>>]
NoCsv == [header |-> {}, lines |-> <<>>]
NoEntry == [stored |-> FALSE, at |-> 0, value |-> NoDf]

\* the loader cache is empty when the session starts
CacheFresh == now = 0 /\ cache = NoEntry /\ steam_prices_df = NoDf

Fresh ==
    /\ pc = "discover"
    /\ exc = "none"
    /\ orderbook_files = <<>>
    /\ selected_file = PyNone
    /\ df = NoDf
    /\ snap_col = PyNone
    /\ selected_snap = PyNone
    /\ snap_df = <<>>
    /\ bids = <<>>
    /\ asks = <<>>
    /\ bid_depth = <<>>
    /\ ask_depth = <<>>
    /\ download = NoCsv

Init ==
    /\ Fresh
    /\ CacheFresh
    /\ \/ fs \in CatalogDirs
       \/ \E k \in 0..MaxRows : \E rows \in [1..k -> SortLines] : fs = SortDir(rows)
       \/ \E k \in 0..MaxRows : \E rows \in [1..k -> DepthLines] : fs = DepthDir(rows)
       \/ \E k \in 0..MaxKeyRows : \E rows \in [1..k -> KeyLines] :
             \E h \in KeyHeaders : fs = KeyDir(h, rows)

\* lines 420-434
Discover ==
    /\ pc = "discover"
    /\ orderbook_files' = Discovered(fs)
    /\ pc' = IF Discovered(fs) = <<>> THEN "no_files" ELSE "load"
    /\ UNCHANGED <<fs, exc, selected_file, df, snap_col, selected_snap, snap_df,
                   bids, asks, bid_depth, ask_depth, download>>
    /\ UNCHANGED cache_vars

\* lines 436-445: the item box, the full read, the date-time parse
Load ==
    /\ pc = "load"
    /\ \E k \in 1..Len(orderbook_files) :
        LET f == orderbook_files[k] IN
        /\ selected_file' = f
        /\ IF FullReadRaises(fs[f])
           THEN pc' = "error" /\ exc' = "read_csv" /\ UNCHANGED <<df, snap_col>>
           ELSE IF ToDatetimeRaises(ReadCsv(fs[f]))
           THEN pc' = "error" /\ exc' = "to_datetime" /\ UNCHANGED <<df, snap_col>>
           ELSE /\ pc' = "split"
                /\ exc' = "none"
                /\ df' = ParseDates(ReadCsv(fs[f]))
                /\ snap_col' = SnapCol(ReadCsv(fs[f]).columns)
    /\ UNCHANGED <<fs, orderbook_files, selected_snap, snap_df, bids, asks,
                   bid_depth, ask_depth, download>>
    /\ UNCHANGED cache_vars

\* lines 446-497: the snapshot box, the filter, the split, the depth chart,
\* the download button
Split ==
    /\ pc = "split"
    /\ IF ~HasRequiredColumns(df.columns)
       THEN /\ pc' = "error"
            /\ exc' = "KeyError"
            /\ UNCHANGED <<selected_snap, snap_df, bids, asks, bid_depth,
                           ask_depth, download>>
       ELSE \E sel \in SnapChoices(df, snap_col) :
            LET rows == SnapshotRows(df, snap_col, sel) IN
            \E b \in SortValues(SideRows(rows, "bid"), df.price_dtype, FALSE),
               a \in SortValues(SideRows(rows, "ask"), df.price_dtype, TRUE) :
                /\ selected_snap' = sel
                /\ snap_df' = rows
                /\ bids' = b
                /\ asks' = a
                /\ bid_depth' = Depth(b)
                /\ ask_depth' = Depth(a)
                /\ download' = ToCsv(df, rows)
                /\ pc' = "done"
                /\ exc' = "none"
    /\ UNCHANGED <<fs, orderbook_files, selected_file, df, snap_col>>
    /\ UNCHANGED cache_vars

\* any interaction reruns the script from the top; after an uncaught
\* exception the page shows the traceback until the next rerun
Rerun ==
    /\ pc \in {"no_files", "done", "error"}
    /\ pc' = "discover"
    /\ exc' = "none"
    /\ orderbook_files' = <<>>
    /\ selected_file' = PyNone
    /\ df' = NoDf
    /\ snap_col' = PyNone
    /\ selected_snap' = PyNone
    /\ snap_df' = <<>>
    /\ bids' = <<>>
    /\ asks' = <<>>
    /\ bid_depth' = <<>>
    /\ ask_depth' = <<>>
    /\ download' = NoCsv
    /\ UNCHANGED fs
    /\ UNCHANGED cache_vars

Next == Discover \/ Load \/ Split \/ Rerun

Spec == Init /\ [][Next]_vars

(***************************************************************************)
(* The collector writing widget.csv between the classification read of     *)
(* line 428 and the full read of line 439 (spec section 5).                *)
(***************************************************************************)
MaxWriterRows == 2

\* well-formed lines the collector writes: every cell parses
WriterLines ==
    {Line("bid", Cell9, 1, CellT1, CellT1), Line("ask", Cell10, 2, CellT2, CellT2)}

tab3_vars == <<exc, orderbook_files, selected_file, df, snap_col, selected_snap,
               snap_df, bids, asks, bid_depth, ask_depth, download>>

WriterSets(file) ==
    /\ pc = "load"
    /\ fs' = [fs EXCEPT !["widget.csv"] = file]
    /\ UNCHANGED pc
    /\ UNCHANGED tab3_vars
    /\ UNCHANGED cache_vars

\* one more line at the end of the file
WriterAppends ==
    /\ fs["widget.csv"].present
    /\ Len(fs["widget.csv"].rows) < MaxWriterRows
    /\ \E l \in WriterLines :
          WriterSets([fs["widget.csv"] EXCEPT
                        !.rows = Append(@, Under(fs["widget.csv"].header, l))])

\* the file replaced by other content, possibly under a different header
WriterRewrites ==
    /\ pc = "load"
    /\ \E h \in Headers : \E k \in 0..MaxWriterRows : \E rows \in [1..k -> WriterLines] :
          WriterSets(File(h, [i \in 1..k |-> Under(h, rows[i])]))

WriterDeletes ==
    /\ fs["widget.csv"].present
    /\ WriterSets(NoFile)

WriterLocks ==
    /\ fs["widget.csv"].present
    /\ ~fs["widget.csv"].locked
    /\ WriterSets([fs["widget.csv"] EXCEPT !.locked = TRUE])

WriterUnlocks ==
    /\ fs["widget.csv"].locked
    /\ WriterSets([fs["widget.csv"] EXCEPT !.locked = FALSE])

InitWriter ==
    /\ Fresh
    /\ CacheFresh
    /\ \E h \in Headers : \E k \in 0..MaxWriterRows : \E rows \in [1..k -> WriterLines] :
          fs = OnlyWidget(File(h, [i \in 1..k |-> Under(h, rows[i])]))

NextWriter ==
    \/ Discover
    \/ Load
    \/ Split
    \/ Rerun
    \/ WriterAppends
    \/ WriterRewrites
    \/ WriterDeletes
    \/ WriterLocks
    \/ WriterUnlocks

SpecWriter == InitWriter /\ [][NextWriter]_vars

(***************************************************************************)
(* The cached loader get_steam_prices_data (lines 14-26), called on every  *)
(* script run (line 206), and the refresh button (lines 201-203).          *)
(***************************************************************************)
\* line 14: @st.cache_data(ttl=30)
CacheTtl == 30

TickSeconds == 10   \* the clock advances in steps of this many seconds
MaxClock == 60      \* the clock stops here

\* lines 16-26, the body of the loader: no file or any exception gives an
\* empty DataFrame; a table with rows needs both date-time columns
GetSteamPricesData(dir) ==
    LET file == dir["steam_prices.csv"] IN
    IF ~file.present THEN NoDf
    ELSE IF FullReadRaises(file) THEN NoDf
    ELSE IF ReadCsv(file).rows = <<>> THEN ReadCsv(file)
    ELSE IF ~(KeyColumns \subseteq file.header) THEN NoDf
    ELSE IF ToDatetimeRaises(ReadCsv(file)) THEN NoDf
    ELSE ParseDates(ReadCsv(file))

\* st.cache_data: an entry younger than its ttl answers the call
CacheHit(entry, time) == entry.stored /\ time - entry.at < CacheTtl

\* what a call of the decorated loader returns
CachedValue(entry, time, dir) ==
    IF CacheHit(entry, time) THEN entry.value ELSE GetSteamPricesData(dir)

\* the entry after the call: a miss runs the body and stores its result
CachedEntry(entry, time, dir) ==
    IF CacheHit(entry, time) THEN entry
    ELSE [stored |-> TRUE, at |-> time, value |-> GetSteamPricesData(dir)]

\* In this part pc = "data" is a script run about to execute line 206 and
\* pc = "loaded" a run that has executed it.  The scraper and the clock move
\* between a run's start and its load: a later move is seen by the next run.

\* line 206
LoadData ==
    /\ pc = "data"
    /\ pc' = "loaded"
    /\ steam_prices_df' = CachedValue(cache, now, fs)
    /\ cache' = CachedEntry(cache, now, fs)
    /\ UNCHANGED <<fs, now>>
    /\ UNCHANGED tab3_vars

\* any interaction starts the script again; its names are bound anew
Interaction ==
    /\ pc = "loaded"
    /\ pc' = "data"
    /\ steam_prices_df' = NoDf
    /\ UNCHANGED <<fs, now, cache>>
    /\ UNCHANGED tab3_vars

\* lines 201-203: st.cache_data.clear(), then st.rerun()
Refresh ==
    /\ pc = "loaded"
    /\ pc' = "data"
    /\ cache' = NoEntry
    /\ steam_prices_df' = NoDf
    /\ UNCHANGED <<fs, now>>
    /\ UNCHANGED tab3_vars

Tick ==
    /\ pc = "data"
    /\ now + TickSeconds <= MaxClock
    /\ now' = now + TickSeconds
    /\ UNCHANGED <<fs, pc, cache, steam_prices_df>>
    /\ UNCHANGED tab3_vars

PricesFile(rows) ==
    File(RequiredColumns \cup KeyColumns,
         [i \in 1..Len(rows) |-> Under(RequiredColumns \cup KeyColumns, rows[i])])

OnlyPrices(file) ==
    [n \in Names |-> IF n = "steam_prices.csv" THEN file ELSE NoFile]

\* the price scraper writes steam_prices.csv
ScraperWrites ==
    /\ pc = "data"
    /\ \E k \in 0..MaxWriterRows : \E rows \in [1..k -> WriterLines] :
          fs' = OnlyPrices(PricesFile(rows))
    /\ UNCHANGED <<pc, now, cache, steam_prices_df>>
    /\ UNCHANGED tab3_vars

\* steam_prices.csv disappears
PricesDeleted ==
    /\ pc = "data"
    /\ fs["steam_prices.csv"].present
    /\ fs' = OnlyPrices(NoFile)
    /\ UNCHANGED <<pc, now, cache, steam_prices_df>>
    /\ UNCHANGED tab3_vars

InitCache ==
    /\ pc = "data"
    /\ exc = "none"
    /\ orderbook_files = <<>>
    /\ selected_file = PyNone
    /\ df = NoDf
    /\ snap_col = PyNone
    /\ selected_snap = PyNone
    /\ snap_df = <<>>
    /\ bids = <<>>
    /\ asks = <<>>
    /\ bid_depth = <<>>
    /\ ask_depth = <<>>
    /\ download = NoCsv
    /\ CacheFresh
    /\ \/ fs = OnlyPrices(NoFile)
       \/ \E k \in 0..MaxWriterRows : \E rows \in [1..k -> WriterLines] :
             fs = OnlyPrices(PricesFile(rows))

NextCache ==
    \/ LoadData
    \/ Interaction
    \/ Refresh
    \/ Tick
    \/ ScraperWrites
    \/ PricesDeleted

SpecCache == InitCache /\ [][NextCache]_vars

(***************************************************************************)
(* Properties.                                                             *)
(***************************************************************************)
IsDiscovered(n) == \E k \in 1..Len(orderbook_files) : orderbook_files[k] = n

Indices(rows) == {rows[k].idx : k \in 1..Len(rows)}

SelectedFile == fs[selected_file]

\* C1 as stated: a file is discovered iff its name is not in the denylist
\* (exact, case-sensitive) and its header holds side, price_vnd and quantity.
C1_DiscoveredIffHeader ==
    pc # "discover" =>
        \A n \in Names :
            fs[n].present =>
                (IsDiscovered(n) <=>
                    (n \notin ignore /\ RequiredColumns \subseteq fs[n].header))

\* C1 amended: a file is discovered iff its name is not in the denylist
\* (exact, case-sensitive), its header holds side, price_vnd and quantity,
\* and neither of its first two data lines makes the prefix read raise;
\* absent files are never discovered.
C1_DiscoveredIffHeaderAndReadablePrefix ==
    pc # "discover" =>
        \A n \in Names :
            IsDiscovered(n) <=>
                /\ fs[n].present
                /\ n \notin ignore
                /\ RequiredColumns \subseteq fs[n].header
                /\ \A i \in 1..Len(fs[n].rows) : i <= 2 => ~fs[n].rows[i].ragged

\* a denylisted file with the full header is passed over, its case variant is
\* discovered, and a file with a malformed second line is skipped
C1_Witness ==
    /\ pc = "load"
    /\ fs["steam_prices.csv"].present
    /\ RequiredColumns \subseteq fs["steam_prices.csv"].header
    /\ ~IsDiscovered("steam_prices.csv")
    /\ IsDiscovered("Steam_prices.csv")
    /\ RequiredColumns \subseteq fs["widget.csv"].header
    /\ fs["widget.csv"].rows[2].ragged
    /\ ~IsDiscovered("widget.csv")

\* C2: bids and asks are disjoint sets of rows of the snapshot, every bid row
\* has side exactly "bid" and every ask row side exactly "ask", together they
\* are the snapshot's rows whose side is "bid" or "ask", and rows of any other
\* side (other letter case included) are in neither.
C2_SplitPartitions ==
    pc = "done" =>
        /\ \A k \in 1..Len(bids) : bids[k].side = "bid" /\ bids[k] = df.rows[bids[k].idx]
        /\ \A k \in 1..Len(asks) : asks[k].side = "ask" /\ asks[k] = df.rows[asks[k].idx]
        /\ Cardinality(Indices(bids)) = Len(bids)
        /\ Cardinality(Indices(asks)) = Len(asks)
        /\ Indices(bids) \cap Indices(asks) = {}
        /\ Indices(bids) \cup Indices(asks) =
              {snap_df[k].idx : k \in {j \in 1..Len(snap_df) :
                                          snap_df[j].side \in {"bid", "ask"}}}
        /\ \A k \in 1..Len(snap_df) :
              snap_df[k].side \notin {"bid", "ask"} =>
                  snap_df[k].idx \notin Indices(bids) \cup Indices(asks)

\* a snapshot with a bid, an ask and a row whose side is "Bid"
C2_Witness ==
    /\ pc = "done"
    /\ bids # <<>>
    /\ asks # <<>>
    /\ \E k \in 1..Len(snap_df) : snap_df[k].side = "Bid"

\* C3 as stated: across consecutive bids the price does not rise, across
\* consecutive asks it does not fall (read on the cells that are numbers).
C3_SidesSortedByPrice ==
    pc = "done" =>
        /\ \A k \in 1..Len(bids) :
              (k < Len(bids) /\ IsDigits(bids[k].price_vnd)
                             /\ IsDigits(bids[k + 1].price_vnd))
                  => Val(bids[k].price_vnd) >= Val(bids[k + 1].price_vnd)
        /\ \A k \in 1..Len(asks) :
              (k < Len(asks) /\ IsDigits(asks[k].price_vnd)
                             /\ IsDigits(asks[k + 1].price_vnd))
                  => Val(asks[k].price_vnd) <= Val(asks[k + 1].price_vnd)

\* C4 as stated: of two rows of one side with equal price, the one that comes
\* first in the file comes first in the sorted side.
C4_SortIsStable ==
    pc = "done" =>
        /\ \A i, j \in 1..Len(bids) :
              (i < j /\ bids[i].price_vnd = bids[j].price_vnd)
                  => bids[i].idx < bids[j].idx
        /\ \A i, j \in 1..Len(asks) :
              (i < j /\ asks[i].price_vnd = asks[j].price_vnd)
                  => asks[i].idx < asks[j].idx

\* the sum of the quantities of a side
RECURSIVE QuantitySum(_)
QuantitySum(rows) ==
    IF rows = <<>> THEN 0 ELSE rows[1].quantity + QuantitySum(Tail(rows))

DepthIsMonotoneTotal(side, depth) ==
    /\ Len(depth) = Len(side)
    /\ \A k \in 1..Len(depth) : depth[k].price_vnd = side[k].price_vnd
    /\ \A k \in 1..Len(depth) : k < Len(depth) => depth[k].cum_qty <= depth[k + 1].cum_qty
    /\ depth # <<>> => depth[Len(depth)].cum_qty = QuantitySum(side)

\* C5 as stated: the depth curve of a side has one pair per row, its
\* cumulative quantity never decreases, and it ends at the side's total.
C5_DepthMonotoneToTotal ==
    pc = "done" =>
        /\ DepthIsMonotoneTotal(bids, bid_depth)
        /\ DepthIsMonotoneTotal(asks, ask_depth)

\* the cell text denotes the instant of the chosen snapshot option
MatchesOption(text, option) ==
    /\ option # PyNone
    /\ ToDatetime(text) # NaT
    /\ ToDatetime(text) = ToDatetime(option)

\* C6: with a timestamp column the snapshot key is the timestamp (also when
\* created_at is present); without it and with created_at the key is
\* created_at; with neither, no filter applies and the snapshot is every row.
C6_KeyColumnChoice ==
    pc = "done" =>
        LET file == SelectedFile
            all == 1..Len(file.rows)
        IN  IF "timestamp" \in file.header
            THEN /\ Indices(snap_df) =
                        {i \in all : MatchesOption(file.rows[i].timestamp, selected_snap)}
                 /\ file.rows # <<>> =>
                        \E i \in all : selected_snap =
                            StrOfDatetime(ToDatetime(file.rows[i].timestamp))
            ELSE IF "created_at" \in file.header
            THEN /\ Indices(snap_df) =
                        {i \in all : MatchesOption(file.rows[i].created_at, selected_snap)}
                 /\ file.rows # <<>> =>
                        \E i \in all : selected_snap =
                            StrOfDatetime(ToDatetime(file.rows[i].created_at))
            ELSE Indices(snap_df) = all /\ selected_snap = PyNone

\* both key columns present and disagreeing: the chosen snapshot holds a row
\* whose created_at is another instant than the chosen key
C6_Witness ==
    /\ pc = "done"
    /\ {"timestamp", "created_at"} \subseteq SelectedFile.header
    /\ \E k \in 1..Len(snap_df) :
          /\ snap_df[k].created_at # NaT
          /\ snap_df[k].created_at # snap_df[k].timestamp
          /\ snap_df[k].timestamp = ToDatetime(selected_snap)

\* C7: the export holds exactly the rows the snapshot-key filter selected
\* before the split, in file order: every row of the table whose key equals
\* the chosen key, rows of other sides included, no row of another key, under
\* the column set of the source file; without a key column, every row.
C7_ExportIsSnapshot ==
    pc = "done" =>
        LET file == SelectedFile
            all == 1..Len(file.rows)
            key == IF "timestamp" \in file.header THEN "timestamp" ELSE "created_at"
            chosen == IF file.header \cap KeyColumns = {} THEN all
                      ELSE {i \in all : MatchesOption(file.rows[i][key], selected_snap)}
        IN  /\ download.header = file.header
            /\ Len(download.lines) = Cardinality(chosen)
            /\ \A k \in 1..Len(download.lines) :
                  /\ snap_df[k].idx \in chosen
                  /\ k > 1 => snap_df[k - 1].idx < snap_df[k].idx
                  /\ download.lines[k].side = file.rows[snap_df[k].idx].side
                  /\ download.lines[k].quantity = file.rows[snap_df[k].idx].quantity
                  /\ ToDatetime(download.lines[k].timestamp) =
                        ToDatetime(file.rows[snap_df[k].idx].timestamp)
                  /\ ToDatetime(download.lines[k].created_at) =
                        ToDatetime(file.rows[snap_df[k].idx].created_at)

\* a keyed snapshot that leaves out a row of another key and exports a row
\* whose side is neither "bid" nor "ask"
C7_Witness ==
    /\ pc = "done"
    /\ snap_col # PyNone
    /\ Len(snap_df) < Len(df.rows)
    /\ \E k \in 1..Len(download.lines) : download.lines[k].side = "Bid"
    /\ \E i \in 1..Len(df.rows) :
          KeyOf(df.rows[i], snap_col) \notin {NaT, ToDatetime(selected_snap)}

\* C8: no qualifying file, a header-only file, a chosen key that matches no
\* row, and a snapshot with an empty side all end in a defined state with
\* empty bids and/or asks and an empty depth curve for the empty side; none
\* of them ends the cycle with an exception.
C8_EmptyIsNotAnError ==
    /\ (pc # "discover" /\ \A n \in Names : ~IsDiscovered(n)) =>
          pc = "no_files" /\ exc = "none" /\ bids = <<>> /\ asks = <<>>
    /\ pc = "error" => SelectedFile.rows # <<>> /\ exc \in {"read_csv", "to_datetime"}
    /\ pc = "split" => ENABLED Split
    /\ pc = "done" =>
          /\ exc = "none"
          /\ snap_df = <<>> => bids = <<>> /\ asks = <<>>
          /\ bids = <<>> => bid_depth = <<>>
          /\ asks = <<>> => ask_depth = <<>>

\* a loaded file with rows whose chosen key ("NaT") matches none of them
C8_Witness ==
    /\ pc = "done"
    /\ df.rows # <<>>
    /\ selected_snap = "NaT"
    /\ snap_df = <<>>
    /\ bids = <<>>
    /\ asks = <<>>
    /\ bid_depth = <<>>
    /\ ask_depth = <<>>

\* the key column of the selected file holds a cell that is no date-time
KeyCellUnparseable(file) ==
    LET key == IF "timestamp" \in file.header THEN "timestamp" ELSE "created_at"
    IN  /\ file.header \cap KeyColumns # {}
        /\ \E i \in 1..Len(file.rows) : Unparseable(file.rows[i][key])

\* C9 as stated: an unparseable cell of the snapshot-key column never aborts
\* the load; the row stays in the table with a missing key.
C9_BadKeyCellDoesNotAbortLoad ==
    (/\ pc \in {"split", "done", "error"}
     /\ ~FullReadRaises(SelectedFile)
     /\ KeyCellUnparseable(SelectedFile))
        => /\ pc # "error"
           /\ Len(df.rows) = Len(SelectedFile.rows)

\* C10 as stated: a failing full read of the selected file is a recoverable
\* "no data for this file" outcome, not an exception that ends the cycle.
C10_FailedReadIsNoData ==
    (/\ pc \in {"split", "done", "error"}
     /\ FullReadRaises(SelectedFile))
        => pc # "error"

\* C11 as stated: whatever the collector does to the file between the
\* classification read and the full read (append, rewrite, other header,
\* delete, lock), the reload cycle never ends with an exception.
C11_WriterNeverCrashesCycle == pc # "error"

\* C12 as stated: a load performed while steam_prices.csv does not exist
\* returns an empty table, never a cached table with rows, whatever the age
\* of the cache entry.
C12_LoadAfterDeleteIsEmpty ==
    (pc = "loaded" /\ ~fs["steam_prices.csv"].present)
        => steam_prices_df.rows = <<>>

====
